---- MODULE Spec2Model ----
(***************************************************************************)
(* Model of the schedule engine of the Schulmanager Online integration:    *)
(* the refresh cycle of SchulmanagerDataUpdateCoordinator (coordinator.py),*)
(* the free-hour synthesis of free_hours_utils.py and the manual refresh   *)
(* service of __init__.py.                                                 *)
(*                                                                         *)
(* Representation.  A date is a day number; day 0 is a Monday, so          *)
(* weekday(d) = d % 7 with 0 = Monday .. 6 = Sunday.  A time of day is the *)
(* number of minutes since midnight.  Python's None is the value None for  *)
(* dates, times and period numbers.  An operation that can raise returns a *)
(* record [ok, val]; ok = FALSE is the raised TypeError.                   *)
(***************************************************************************)
EXTENDS Integers, Sequences, FiniteSets, TLC

None == 0 - 1

\* const.py: DEFAULT_LOOKAHEAD_WEEKS (the option key the coordinator reads,
\* "weeks_ahead", is never written by the config flow, so the default applies)
DEFAULT_LOOKAHEAD_WEEKS == 2

\* __init__.py _svc_refresh: the cooldown window in seconds
COOLDOWN_SECONDS == 300

Weekday(d) == d % 7

\* a calendar in which Saturday and Sunday are school days
NoWeekend(d) == FALSE

IsWeekend(d) == Weekday(d) >= 5

Range(s) == {s[i] : i \in DOMAIN s}

\* list.sort(key=...): a stable sort of s by the integer keys ks (insertion of
\* each element behind the elements whose key is not greater)
RECURSIVE SortPairs(_)
SortPairs(ps) ==
    IF ps = <<>> THEN <<>>
    ELSE LET front == SortPairs(SubSeq(ps, 1, Len(ps) - 1))
             x == ps[Len(ps)]
             k == Cardinality({i \in DOMAIN front : front[i][1] <= x[1]})
         IN  SubSeq(front, 1, k) \o <<x>> \o SubSeq(front, k + 1, Len(front))

StableSort(s, ks) ==
    LET sorted == SortPairs([i \in DOMAIN s |-> <<ks[i], s[i]>>])
    IN  [i \in DOMAIN sorted |-> sorted[i][2]]

(***************************************************************************)
(* free_hours_utils.py                                                     *)
(***************************************************************************)

\* create_free_hour_lesson
create_free_hour_lesson(date, period_num, start_time, end_time) ==
    [id |-> <<"free", date, period_num>>,
     date |-> date,
     class_hour_number |-> period_num,
     start_time |-> start_time,
     end_time |-> end_time,
     subject |-> "",
     room |-> "",
     teachers |-> <<>>,
     type |-> "freeHour",
     is_substitution |-> FALSE,
     comment |-> "",
     is_free_hour |-> TRUE]

\* get_available_periods_from_class_hours: the period numbers 1..12 of the table
available_periods(class_hours) ==
    {class_hours[i].number : i \in {j \in DOMAIN class_hours :
                                       class_hours[j].number >= 1 /\ class_hours[j].number <= 12}}

\* get_available_periods_from_class_hours: period_times[p], the last entry of the
\* table with that number (a later entry overwrites an earlier one)
period_times(class_hours, p) ==
    LET last == CHOOSE i \in DOMAIN class_hours :
                    /\ class_hours[i].number = p
                    /\ \A j \in DOMAIN class_hours : class_hours[j].number = p => j <= i
    IN  <<class_hours[last].from, class_hours[last].until>>

\* get_occupied_periods_for_date matching no lesson of the date
OccupiedNone(lessons, date) == {}

\* get_occupied_periods_for_date
get_occupied_periods_for_date(lessons, date) ==
    {lessons[i].class_hour_number : i \in {j \in DOMAIN lessons :
        lessons[j].date = date /\ lessons[j].class_hour_number # None}}

\* the free hours add_free_hours_to_schedule creates for one date
FreeHoursForDate(lessons, class_hours, date) ==
    LET avail == available_periods(class_hours)
        occ   == get_occupied_periods_for_date(lessons, date)
        todo  == avail \ occ          \* iterated in increasing order; sorted below anyway
        free  == SelectSeq([i \in 1..12 |-> i], LAMBDA p : p \in todo)
    IN  [i \in DOMAIN free |->
            create_free_hour_lesson(date, free[i],
                                    period_times(class_hours, free[i])[1],
                                    period_times(class_hours, free[i])[2])]

\* the while loop of add_free_hours_to_schedule from current_date to end_date
RECURSIVE CollectDates(_, _, _, _)
CollectDates(lessons, class_hours, current_date, end_date) ==
    IF current_date > end_date THEN <<>>
    ELSE IF IsWeekend(current_date)
         THEN CollectDates(lessons, class_hours, current_date + 1, end_date)
         ELSE SelectSeq(lessons, LAMBDA l : l.date = current_date)
              \o FreeHoursForDate(lessons, class_hours, current_date)
              \o CollectDates(lessons, class_hours, current_date + 1, end_date)

\* add_free_hours_to_schedule.  The final sort takes int(class_hour_number) of
\* every collected entry, which raises TypeError for None.
add_free_hours_to_schedule(processed_lessons, class_hours, start_date, end_date) ==
    IF available_periods(class_hours) = {}
    THEN [ok |-> TRUE, val |-> processed_lessons]
    ELSE LET all == CollectDates(processed_lessons, class_hours, start_date, end_date)
         IN  IF \E i \in DOMAIN all : all[i].class_hour_number = None
             THEN [ok |-> FALSE, val |-> <<>>]
             ELSE [ok |-> TRUE,
                   val |-> StableSort(all, [i \in DOMAIN all |->
                                all[i].date * 100 + all[i].class_hour_number])]

(***************************************************************************)
(* coordinator.py: normalization                                           *)
(***************************************************************************)

Truthy(x) == x # None /\ x # 0

\* _calculate_times_for_hour, the fallback table default_times
default_times(hour_number) ==
    CASE hour_number = 1  -> <<480, 525>>
      [] hour_number = 2  -> <<528, 573>>
      [] hour_number = 3  -> <<593, 638>>
      [] hour_number = 4  -> <<643, 688>>
      [] hour_number = 5  -> <<698, 743>>
      [] hour_number = 6  -> <<748, 793>>
      [] hour_number = 7  -> <<848, 893>>
      [] hour_number = 8  -> <<898, 943>>
      [] hour_number = 9  -> <<948, 993>>
      [] hour_number = 10 -> <<998, 1043>>
      [] hour_number = 11 -> <<1048, 1093>>
      [] OTHER            -> <<480, 525>>

\* _calculate_times_for_hour: reads the class hours of self.data, the data the
\* coordinator has published (pub), not those fetched in the running cycle
_calculate_times_for_hour(pub, hour_number) ==
    LET hn == IF hour_number = None THEN 1 ELSE hour_number
        ch == IF pub.present THEN pub.class_hours ELSE <<>>
        hit == {i \in DOMAIN ch : ch[i].number = hn}
    IN  IF hit # {}
        THEN LET first == CHOOSE i \in hit : \A j \in hit : i <= j
             IN  <<ch[first].from, ch[first].until>>
        ELSE default_times(hn)

\* _enhance_lesson_with_calculated_times
_enhance_lesson_with_calculated_times(pub, lesson) ==
    IF Truthy(lesson.class_hour_number) /\ lesson.start_time # None /\ lesson.end_time # None
    THEN lesson
    ELSE IF Truthy(lesson.class_hour_number)
            /\ (lesson.start_time = None \/ lesson.end_time = None)
         THEN LET t == _calculate_times_for_hour(pub, lesson.class_hour_number)
              IN  [lesson EXCEPT !.start_time = t[1], !.end_time = t[2]]
         ELSE lesson

\* _process_lesson: the teacher projection
TeacherInfo(teachers) ==
    [i \in DOMAIN teachers |->
        [name |-> <<teachers[i].firstname, teachers[i].lastname>>,
         firstname |-> teachers[i].firstname,
         lastname |-> teachers[i].lastname,
         abbreviation |-> teachers[i].abbreviation]]

\* _process_lesson. Subject, room and teachers are read from actualLesson only
\* (an absent actualLesson is {}); a missing date stays None, nothing raises.
_process_lesson(pub, lesson) ==
    LET has == Len(lesson.actualLesson) > 0
        al  == lesson.actualLesson
        processed ==
            [id |-> <<"lesson", IF has THEN al[1].lessonId ELSE lesson.id>>,
             date |-> lesson.date,
             class_hour_number |-> lesson.classHour.number,
             start_time |-> lesson.classHour.from,
             end_time |-> lesson.classHour.until,
             subject |-> IF has THEN al[1].subject ELSE "",
             room |-> IF has THEN al[1].room ELSE "",
             teachers |-> IF has THEN TeacherInfo(al[1].teachers) ELSE <<>>,
             is_substitution |-> lesson.type = "substitution",
             type |-> lesson.type,
             comment |-> lesson.comment,
             is_free_hour |-> FALSE]
    IN  _enhance_lesson_with_calculated_times(pub, processed)

\* _assign_correct_hour_numbers
_assign_correct_hour_numbers(pub, lessons) ==
    [i \in DOMAIN lessons |->
        IF Truthy(lessons[i].class_hour_number) /\ lessons[i].start_time = None
        THEN LET t == _calculate_times_for_hour(pub, lessons[i].class_hour_number)
             IN  [lessons[i] EXCEPT !.start_time = t[1], !.end_time = t[2]]
        ELSE lessons[i]]

CrossNone(a, b) == (a = None) # (b = None)

\* the sort of _process_schedule_data compares (date, start_time) tuples: a None
\* against a string raises TypeError
SortByDateTimeRaises(ls) ==
    \E i, j \in DOMAIN ls :
        /\ i < j
        /\ \/ CrossNone(ls[i].date, ls[j].date)
           \/ (ls[i].date = ls[j].date /\ CrossNone(ls[i].start_time, ls[j].start_time))

\* _process_schedule_data
_process_schedule_data(pub, schedule_data) ==
    LET processed == [i \in DOMAIN schedule_data |-> _process_lesson(pub, schedule_data[i])]
    IN  IF SortByDateTimeRaises(processed)
        THEN [ok |-> FALSE, val |-> <<>>]
        ELSE [ok |-> TRUE,
              val |-> _assign_correct_hour_numbers(pub,
                        StableSort(processed, [i \in DOMAIN processed |->
                            processed[i].date * 2000 + processed[i].start_time]))]

(***************************************************************************)
(* coordinator.py: derived views.  now = [date, time].                     *)
(***************************************************************************)

DateTime(date, time) == date * 1440 + time

\* _parse_lesson_datetime: None when date or start_time is missing
_parse_lesson_datetime(lesson) ==
    IF lesson.date = None \/ lesson.start_time = None THEN None
    ELSE DateTime(lesson.date, lesson.start_time)

\* _parse_lesson_end_datetime
_parse_lesson_end_datetime(lesson) ==
    IF lesson.date = None \/ lesson.end_time = None THEN None
    ELSE DateTime(lesson.date, lesson.end_time)

NoLesson == <<>>

FirstOrNone(lessons, hits) ==
    IF hits = {} THEN NoLesson
    ELSE <<lessons[CHOOSE i \in hits : \A j \in hits : i <= j]>>

\* _get_current_lesson: the first lesson with start <= now <= end
_get_current_lesson(lessons, now) ==
    FirstOrNone(lessons,
        {i \in DOMAIN lessons :
            /\ _parse_lesson_datetime(lessons[i]) # None
            /\ _parse_lesson_end_datetime(lessons[i]) # None
            /\ _parse_lesson_datetime(lessons[i]) <= DateTime(now.date, now.time)
            /\ DateTime(now.date, now.time) <= _parse_lesson_end_datetime(lessons[i])})

\* _get_next_lesson: the first lesson of the list that starts after now
_get_next_lesson(lessons, now) ==
    FirstOrNone(lessons,
        {i \in DOMAIN lessons :
            /\ _parse_lesson_datetime(lessons[i]) # None
            /\ _parse_lesson_datetime(lessons[i]) > DateTime(now.date, now.time)})

\* _get_today_lessons
_get_today_lessons(lessons, now) ==
    SelectSeq(lessons, LAMBDA l : l.date = now.date)

\* _get_tomorrow_lessons
_get_tomorrow_lessons(lessons, now) ==
    SelectSeq(lessons, LAMBDA l : l.date = now.date + 1)

\* _get_today_changes
_get_today_changes(lessons, now) ==
    SelectSeq(lessons, LAMBDA l :
        /\ l.date = now.date
        /\ (l.is_substitution \/ l.type \in {"changedLesson", "cancelledLesson"}))

\* _get_this_week_lessons / _get_next_week_lessons compare monday_str <=
\* lesson["date"] <= friday_str for every lesson: a None date raises TypeError
WeekWindowRaises(lessons) == \E i \in DOMAIN lessons : lessons[i].date = None

\* _get_this_week_lessons
_get_this_week_lessons(lessons, now) ==
    LET monday == now.date - Weekday(now.date)
    IN  SelectSeq(lessons, LAMBDA l : monday <= l.date /\ l.date <= monday + 4)

\* _get_next_week_lessons
_get_next_week_lessons(lessons, now) ==
    LET next_monday == now.date + (7 - Weekday(now.date))
    IN  SelectSeq(lessons, LAMBDA l : next_monday <= l.date /\ l.date <= next_monday + 4)

\* _get_next_school_day_lessons
_get_next_school_day_lessons(lessons, now) ==
    LET cand == {k \in 1..7 :
                    /\ ~IsWeekend(now.date + k)
                    /\ \E i \in DOMAIN lessons : lessons[i].date = now.date + k}
    IN  IF cand = {} THEN <<>>
        ELSE LET k == CHOOSE a \in cand : \A b \in cand : a <= b
             IN  SelectSeq(lessons, LAMBDA l : l.date = now.date + k)

(***************************************************************************)
(* coordinator.py: change detection                                        *)
(***************************************************************************)

LessonKey(lesson) == <<lesson.date, lesson.class_hour_number>>

\* the lookup dictionaries of _detect_changes: the last lesson of each key
Lookup(schedule, key) ==
    LET hits == {i \in DOMAIN schedule : LessonKey(schedule[i]) = key}
    IN  schedule[CHOOSE i \in hits : \A j \in hits : j <= i]

\* the key of every lesson, a key shared by two lessons repeated
KeyPerLesson(schedule) == [i \in DOMAIN schedule |-> LessonKey(schedule[i])]

\* the keys of a lookup dictionary in insertion order (first occurrence)
KeyOrder(schedule) ==
    LET firsts == SelectSeq([i \in DOMAIN schedule |-> i], LAMBDA i :
                      \A j \in 1..(i - 1) : LessonKey(schedule[j]) # LessonKey(schedule[i]))
    IN  [i \in DOMAIN firsts |-> LessonKey(schedule[firsts[i]])]

\* the teachers compared by the first teacher only
PrimaryAbbreviation(teachers) ==
    IF teachers = <<>> THEN <<>> ELSE <<teachers[1].abbreviation>>

\* _compare_lessons: [t.get("abbreviation", "") for t in teachers]
Abbreviations(teachers) == [i \in DOMAIN teachers |-> teachers[i].abbreviation]

\* ", ".join(strings)
RECURSIVE Join(_)
Join(strs) ==
    IF strs = <<>> THEN <<>>
    ELSE IF Len(strs) = 1 THEN strs[1]
    ELSE strs[1] \o <<",", " ">> \o Join(Tail(strs))

\* _compare_lessons: the names of the compared fields that differ, in the order
\* of fields_to_check
ChangedFields(previous, current) ==
    LET diff == [f \in {"subject", "room", "start_time", "end_time", "teachers",
                        "is_substitution", "type", "comment"} |->
                    CASE f = "subject" -> previous.subject # current.subject
                      [] f = "room" -> previous.room # current.room
                      [] f = "start_time" -> previous.start_time # current.start_time
                      [] f = "end_time" -> previous.end_time # current.end_time
                      [] f = "teachers" -> Abbreviations(previous.teachers)
                                             # Abbreviations(current.teachers)
                      [] f = "is_substitution" -> previous.is_substitution # current.is_substitution
                      [] f = "type" -> previous.type # current.type
                      [] f = "comment" -> previous.comment # current.comment]
    IN  SelectSeq(<<"subject", "room", "start_time", "end_time", "teachers",
                    "is_substitution", "type", "comment">>, LAMBDA f : diff[f])

\* _compare_lessons: the value a field change reports for a lesson; the teachers
\* are reported as their joined abbreviations
FieldValue(lesson, field) ==
    CASE field = "subject" -> lesson.subject
      [] field = "room" -> lesson.room
      [] field = "start_time" -> lesson.start_time
      [] field = "end_time" -> lesson.end_time
      [] field = "teachers" -> Join(Abbreviations(lesson.teachers))
      [] field = "is_substitution" -> lesson.is_substitution
      [] field = "type" -> lesson.type
      [] field = "comment" -> lesson.comment

\* _compare_lessons: the change record, or no record (<<>>) when nothing differs
_compare_lessons(previous, current) ==
    LET fields == ChangedFields(previous, current)
    IN  IF fields = <<>> THEN <<>>
        ELSE <<[type |-> "modified",
                date |-> current.date,
                class_hour |-> current.class_hour_number,
                current |-> <<current>>,
                previous |-> <<previous>>,
                field_changes |-> [i \in DOMAIN fields |->
                    [field |-> fields[i],
                     previous |-> FieldValue(previous, fields[i]),
                     current |-> FieldValue(current, fields[i])]]]>>

RECURSIVE Flatten(_)
Flatten(ss) == IF ss = <<>> THEN <<>> ELSE Head(ss) \o Flatten(Tail(ss))

\* _detect_changes, lines 538-553: the loop over current_lookup
CurrentChanges(previous_schedule, current_schedule) ==
    LET ck == KeyOrder(current_schedule)
        pk == KeyOrder(previous_schedule)
    IN  Flatten([i \in DOMAIN ck |->
            IF ck[i] \in Range(pk)
            THEN _compare_lessons(Lookup(previous_schedule, ck[i]),
                                  Lookup(current_schedule, ck[i]))
            ELSE <<[type |-> "added",
                    date |-> ck[i][1],
                    class_hour |-> ck[i][2],
                    current |-> <<Lookup(current_schedule, ck[i])>>,
                    previous |-> <<>>,
                    field_changes |-> <<>>]>>])

\* the loop over previous_lookup reporting nothing
NoRemovedChanges(previous_schedule, current_schedule) == <<>>

\* _detect_changes, lines 555-565: the loop over previous_lookup
RemovedChanges(previous_schedule, current_schedule) ==
    LET ck == KeyOrder(current_schedule)
        pk == KeyOrder(previous_schedule)
    IN  Flatten([i \in DOMAIN pk |->
            IF pk[i] \notin Range(ck)
            THEN <<[type |-> "removed",
                    date |-> pk[i][1],
                    class_hour |-> pk[i][2],
                    current |-> <<>>,
                    previous |-> <<Lookup(previous_schedule, pk[i])>>,
                    field_changes |-> <<>>]>>
            ELSE <<>>])

\* _detect_changes, lines 523-571: the diff of two schedules
DiffSchedules(previous_schedule, current_schedule) ==
    LET changes == CurrentChanges(previous_schedule, current_schedule)
                   \o RemovedChanges(previous_schedule, current_schedule)
    IN  [has_changes |-> Len(changes) > 0, changes |-> changes]

\* _detect_changes taking a missing previous snapshot for an empty one
DetectAgainstEmptySnapshot(previous_data, student_id, current_schedule) ==
    DiffSchedules(IF student_id \in DOMAIN previous_data
                  THEN previous_data[student_id].schedule ELSE <<>>,
                  current_schedule)

\* _detect_changes
_detect_changes(previous_data, student_id, current_schedule) ==
    IF student_id \notin DOMAIN previous_data
    THEN [has_changes |-> FALSE, changes |-> <<>>]
    ELSE DiffSchedules(previous_data[student_id].schedule, current_schedule)

(***************************************************************************)
(* coordinator.py: novelty keys.  A string is a sequence of characters.    *)
(***************************************************************************)

RECURSIVE LStrip(_)
LStrip(str) == IF str # <<>> /\ Head(str) = " " THEN LStrip(Tail(str)) ELSE str

RECURSIVE RStrip(_)
RStrip(str) ==
    IF str # <<>> /\ str[Len(str)] = " " THEN RStrip(SubSeq(str, 1, Len(str) - 1)) ELSE str

\* str.strip()
Strip(str) == RStrip(LStrip(str))

\* str(student_id) for a one-digit id
StrOfId(student_id) == <<<<"0", "1", "2", "3", "4", "5", "6", "7", "8", "9">>[student_id + 1]>>

NoKey == <<>>

\* _homework_key: None (NoKey) without a date or without subject and text
_homework_key(student_id, item) ==
    LET date == Strip(item.date)
        subject == Strip(item.subject)
        homework == Strip(item.homework)
    IN  IF date = <<>> \/ (subject = <<>> /\ homework = <<>>) THEN NoKey
        ELSE StrOfId(student_id) \o <<"_">> \o date \o <<"_">> \o subject \o <<"_">> \o homework

\* the homework items of a cycle's data as (student, item) pairs, in the order
\* _seed_seen_sets and _detect_and_fire_events visit them
RECURSIVE HomeworkItems(_, _)
HomeworkItems(d, order) ==
    IF order = <<>> THEN <<>>
    ELSE (IF Head(order) \in DOMAIN d.students
          THEN [i \in DOMAIN d.students[Head(order)].homework |->
                   [student_id |-> Head(order), item |-> d.students[Head(order)].homework[i]]]
          ELSE <<>>)
         \o HomeworkItems(d, Tail(order))

\* _seed_seen_sets leaving its loop after the first item
SeedFirstItemOnly(seen, items) ==
    IF items = <<>> THEN seen
    ELSE seen \cup ({_homework_key(items[1].student_id, items[1].item)} \ {NoKey})

\* _seed_seen_sets: the seen-set after seeding
_seed_seen_sets(seen, items) ==
    seen \cup ({_homework_key(items[i].student_id, items[i].item) : i \in DOMAIN items} \ {NoKey})

\* _detect_and_fire_events without self._seen_homework.add(key)
RECURSIVE DetectWithoutMarking(_, _)
DetectWithoutMarking(seen, items) ==
    IF items = <<>> THEN [seen |-> seen, events |-> <<>>]
    ELSE LET key == _homework_key(Head(items).student_id, Head(items).item)
             rest == DetectWithoutMarking(seen, Tail(items))
         IN  IF key = NoKey \/ key \in seen THEN rest
             ELSE [seen |-> rest.seen, events |-> <<key>> \o rest.events]

\* _detect_and_fire_events, the homework loop: [seen, events] after visiting items
RECURSIVE _detect_and_fire_events(_, _)
_detect_and_fire_events(seen, items) ==
    IF items = <<>> THEN [seen |-> seen, events |-> <<>>]
    ELSE LET key == _homework_key(Head(items).student_id, Head(items).item)
         IN  IF key = NoKey \/ key \in seen
             THEN _detect_and_fire_events(seen, Tail(items))
             ELSE LET rest == _detect_and_fire_events(seen \cup {key}, Tail(items))
                  IN  [seen |-> rest.seen, events |-> <<key>> \o rest.events]

(***************************************************************************)
(* The inputs the upstream API can deliver to a refresh cycle              *)
(***************************************************************************)

Students == {1, 2}

StudentOrder == <<1, 2>>

Teacher == [firstname |-> "Anna", lastname |-> "Berg", abbreviation |-> <<"B", "E">>]

Teacher2 == [firstname |-> "Carl", lastname |-> "Dorn", abbreviation |-> <<"D", "O">>]

\* a raw lesson of get-actual-lessons
RawLesson(id, date, number, from, until, room, type) ==
    [id |-> id,
     date |-> date,
     classHour |-> [number |-> number, from |-> from, until |-> until],
     actualLesson |-> <<[lessonId |-> id, subject |-> "Math", room |-> room,
                         teachers |-> <<Teacher>>]>>,
     originalLessons |-> <<>>,
     type |-> type,
     comment |-> ""]

\* Wednesday, period 1, room R101
LessonA == RawLesson(1, 2, 1, 480, 525, "R101", "regularLesson")

\* the same slot after a room change
LessonA2 == RawLesson(1, 2, 1, 480, 525, "R202", "regularLesson")

\* a lesson whose date is missing
LessonNoDate == RawLesson(2, None, 2, 530, 575, "R101", "regularLesson")

\* a club: no period number, times as given
LessonNoPeriod == RawLesson(3, 2, None, 900, 960, "Gym", "event")

\* a lesson with a period number and no times
LessonNoTimes == RawLesson(4, 3, 2, None, None, "R101", "substitution")


\* the institution period table of get-class-hours
ClassHoursTable ==
    <<[number |-> 1, from |-> 480, until |-> 525], [number |-> 2, from |-> 535, until |-> 580]>>


HomeworkA == [date |-> <<"1">>, subject |-> <<"M">>, homework |-> <<"a">>]

HomeworkB == [date |-> <<"1">>, subject |-> <<"M">>, homework |-> <<"b">>]

\* an item without a date has no key
HomeworkNoDate == [date |-> <<>>, subject |-> <<"M">>, homework |-> <<"a">>]

\* Wednesday 08:10, what datetime.now() reads in a cycle
NowChoices == {[date |-> 2, time |-> 490]}

(***************************************************************************)
(* State                                                                   *)
(***************************************************************************)

VARIABLES
    students,              \* self.students, the cached student ids
    previous_data,         \* self.previous_data
    initial_refresh_done,  \* self._initial_refresh_done
    seen_homework,         \* self._seen_homework
    data,                  \* self.data, what the coordinator has published
    last_update_success,   \* DataUpdateCoordinator.last_update_success
    pc,                    \* "idle", or "running" inside _async_update_data
    cur,                   \* the local data of the running cycle
    todo,                  \* the students the running cycle has still to visit
    now,                   \* datetime.now() of the running cycle
    api_failed,            \* the students whose fetch raised in the running/last cycle
    fetched,               \* the locals student_id, schedule_data, class_hours of the
                           \* student visited last in the running (or failed) cycle
    fired,                 \* schulmanager_homework_new events fired so far, per key
    universe,              \* which inputs the upstream API may deliver
    clock,                 \* wall clock in seconds (manual refresh service)
    last_manual_refresh,   \* coord._last_manual_refresh, None when unset
    handler,               \* the running _svc_refresh handlers
    refresh_requests,      \* the times async_request_refresh was called at
    arg,                   \* input of a function under test
    res                    \* its result

svcVars == <<clock, last_manual_refresh, handler, refresh_requests>>

funVars == <<arg, res>>

vars == <<students, previous_data, initial_refresh_done, seen_homework, data,
          last_update_success, pc, cur, todo, now, api_failed, fetched, fired,
          universe, clock, last_manual_refresh, handler, refresh_requests, arg, res>>

EmptyMap == [x \in {} |-> x]

NoData == [present |-> FALSE, students |-> EmptyMap, class_hours |-> <<>>]

NoNow == [date |-> 0, time |-> 0]

NoFetch == [student_id |-> 0, schedule_data |-> <<>>, class_hours |-> <<>>]

\* SchulmanagerDataUpdateCoordinator.__init__
CoordInit ==
    /\ students = {}
    /\ previous_data = EmptyMap
    /\ initial_refresh_done = FALSE
    /\ seen_homework = {}
    /\ data = NoData
    /\ last_update_success = TRUE
    /\ pc = "idle"
    /\ cur = NoData
    /\ todo = <<>>
    /\ now = NoNow
    /\ api_failed = {}
    /\ fetched = NoFetch
    /\ fired = EmptyMap

SvcInit ==
    /\ clock = 0
    /\ last_manual_refresh = None
    /\ handler = EmptyMap
    /\ refresh_requests = <<>>

FunInit ==
    /\ arg = <<>>
    /\ res = <<>>

Init == CoordInit /\ SvcInit /\ FunInit /\ universe = "schedule"

InitNovelty == CoordInit /\ SvcInit /\ FunInit /\ universe = "novelty"

\* What get_schedule may return in a cycle: the inputs of the schedule pipeline,
\* or those of the novelty tracker; in the universe "steady" the homework upstream
\* never changes
Batches ==
    IF universe = "schedule"
    THEN {<<LessonA>>, <<LessonA2>>, <<LessonA, LessonNoDate>>, <<LessonNoDate>>,
          <<LessonA, LessonNoPeriod>>, <<LessonNoTimes>>}
    ELSE {<<LessonA>>, <<LessonA, LessonNoDate>>}

\* What get_class_hours may return ([] also stands for its API error, line 112)
Tables == IF universe = "schedule" THEN {<<>>, ClassHoursTable} ELSE {<<>>}

\* What get_homework may return ([] also stands for its API error, line 144)
Homeworks ==
    IF universe = "schedule"
    THEN {<<>>}
    ELSE IF universe = "novelty"
         THEN {<<HomeworkA>>, <<HomeworkA, HomeworkB>>, <<HomeworkB, HomeworkB, HomeworkNoDate>>}
         ELSE {<<HomeworkA, HomeworkB>>}

(***************************************************************************)
(* _async_update_data, one step per awaited student                        *)
(***************************************************************************)

\* lines 56-87: fetch the student list when none is cached (a failing institution
\* is skipped), read the clock, start with an empty result
StartCycle ==
    /\ pc = "idle"
    /\ \E got \in {{}, Students} :
          students' = IF students = {} THEN got ELSE students
    /\ \E n \in NowChoices : now' = n
    /\ cur' = [present |-> TRUE, students |-> EmptyMap, class_hours |-> <<>>]
    /\ todo' = SelectSeq(StudentOrder, LAMBDA s : s \in students')
    /\ api_failed' = {}
    /\ fetched' = NoFetch
    /\ pc' = "running"
    /\ UNCHANGED <<previous_data, initial_refresh_done, seen_homework, data,
                   last_update_success, fired, universe>>
    /\ UNCHANGED svcVars /\ UNCHANGED funVars

start_date == now.date - Weekday(now.date)

end_date == start_date + 7 * DEFAULT_LOOKAHEAD_WEEKS

\* lines 114-120: normalization, then free hours
ProcessedSchedule(schedule_data, class_hours) ==
    LET normalized == _process_schedule_data(data, schedule_data)
    IN  IF ~normalized.ok THEN normalized
        ELSE add_free_hours_to_schedule(normalized.val, class_hours, start_date, end_date)

\* lines 126-135: the view functions raise TypeError
ViewsRaise(schedule) == WeekWindowRaises(schedule)

\* lines 114-135: whether building the student's entry raises TypeError
ProcessingRaises(schedule_data, class_hours) ==
    LET schedule == ProcessedSchedule(schedule_data, class_hours)
    IN  ~schedule.ok \/ ViewsRaise(schedule.val)

\* the student's entry without the derived views
StudentDataWithoutViews(student_id, schedule, homework) ==
    [info |-> student_id, schedule |-> schedule, homework |-> homework]

\* lines 122-144: the student's entry
StudentData(student_id, schedule, homework) ==
    [info |-> student_id,
     schedule |-> schedule,
     current_lesson |-> _get_current_lesson(schedule, now),
     next_lesson |-> _get_next_lesson(schedule, now),
     today_lessons |-> _get_today_lessons(schedule, now),
     today_changes |-> _get_today_changes(schedule, now),
     tomorrow_lessons |-> _get_tomorrow_lessons(schedule, now),
     next_school_day |-> _get_next_school_day_lessons(schedule, now),
     this_week |-> _get_this_week_lessons(schedule, now),
     next_week |-> _get_next_week_lessons(schedule, now),
     changes_detected |-> _detect_changes(previous_data, student_id, schedule),
     homework |-> homework]

Put(map, key, val) == [k \in DOMAIN map \cup {key} |-> IF k = key THEN val ELSE map[k]]

\* lines 169-172 with the student's published entry carried over to the result
FetchStudentCarriesOver ==
    /\ pc = "running" /\ todo # <<>>
    /\ api_failed' = api_failed \cup {Head(todo)}
    /\ todo' = Tail(todo)
    /\ cur' = IF Head(todo) \in DOMAIN data.students
              THEN [cur EXCEPT !.students =
                        Put(cur.students, Head(todo), data.students[Head(todo)])]
              ELSE cur
    /\ UNCHANGED <<students, previous_data, initial_refresh_done, seen_homework, data,
                   last_update_success, pc, now, fetched, fired, universe>>
    /\ UNCHANGED svcVars /\ UNCHANGED funVars

\* lines 97-104, 169-172: get_schedule raises SchulmanagerAPIError; the student is
\* skipped and the loop continues
FetchStudentApiError ==
    /\ pc = "running" /\ todo # <<>>
    /\ api_failed' = api_failed \cup {Head(todo)}
    /\ todo' = Tail(todo)
    /\ UNCHANGED <<students, previous_data, initial_refresh_done, seen_homework, data,
                   last_update_success, pc, cur, now, fetched, fired, universe>>
    /\ UNCHANGED svcVars /\ UNCHANGED funVars

\* lines 97-167: the student's data is fetched (class hours and homework fall back
\* to empty on their own API error) and the entry is added to the local result
FetchStudentOk ==
    /\ pc = "running" /\ todo # <<>>
    /\ \E schedule_data \in Batches, class_hours \in Tables :
          LET schedule == ProcessedSchedule(schedule_data, class_hours)
          IN  /\ schedule.ok
              /\ ~ViewsRaise(schedule.val)
              /\ fetched' = [student_id |-> Head(todo), schedule_data |-> schedule_data,
                             class_hours |-> class_hours]
              /\ \E homework \in Homeworks :
                    cur' = [cur EXCEPT
                        !.class_hours = class_hours,
                        !.students = Put(cur.students, Head(todo),
                            StudentData(Head(todo), schedule.val, homework))]
    /\ todo' = Tail(todo)
    /\ UNCHANGED <<students, previous_data, initial_refresh_done, seen_homework, data,
                   last_update_success, pc, now, api_failed, fired, universe>>
    /\ UNCHANGED svcVars /\ UNCHANGED funVars

\* lines 114-135, 207-209: processing the fetched schedule raises TypeError, which
\* is no SchulmanagerAPIError: the outer handler turns it into UpdateFailed, the
\* cycle ends and self.data stays as it was
FetchStudentRaises ==
    /\ pc = "running" /\ todo # <<>>
    /\ \E schedule_data \in Batches, class_hours \in Tables :
          /\ ProcessingRaises(schedule_data, class_hours)
          /\ fetched' = [student_id |-> Head(todo), schedule_data |-> schedule_data,
                         class_hours |-> class_hours]
    /\ last_update_success' = FALSE
    /\ pc' = "idle"
    /\ cur' = NoData
    /\ todo' = <<>>
    /\ now' = NoNow
    /\ UNCHANGED <<students, previous_data, initial_refresh_done, seen_homework, data,
                   api_failed, fired, universe>>
    /\ UNCHANGED svcVars /\ UNCHANGED funVars

AddFired(f, events) ==
    [k \in DOMAIN f \cup Range(events) |->
        (IF k \in DOMAIN f THEN f[k] ELSE 0)
        + Cardinality({i \in DOMAIN events : events[i] = k})]

\* lines 194-205: seed or detect novelties, then return the data, which the base
\* class publishes as self.data
FinishCycle ==
    /\ pc = "running" /\ todo = <<>>
    /\ LET items == HomeworkItems(cur, StudentOrder)
           detected == _detect_and_fire_events(seen_homework, items)
       IN  IF initial_refresh_done
           THEN /\ seen_homework' = detected.seen
                /\ fired' = AddFired(fired, detected.events)
                /\ UNCHANGED initial_refresh_done
           ELSE /\ seen_homework' = _seed_seen_sets(seen_homework, items)
                /\ initial_refresh_done' = TRUE
                /\ UNCHANGED fired
    /\ data' = cur
    /\ last_update_success' = TRUE
    /\ pc' = "idle"
    /\ cur' = NoData
    /\ now' = NoNow
    /\ fetched' = NoFetch
    /\ UNCHANGED <<students, previous_data, todo, api_failed, universe>>
    /\ UNCHANGED svcVars /\ UNCHANGED funVars

\* get_student_data: what an entity reads, None (<<>>) or the student's entry
get_student_data(student_id) ==
    IF ~data.present \/ student_id \notin DOMAIN data.students THEN <<>>
    ELSE <<data.students[student_id]>>

Next == StartCycle \/ FetchStudentApiError \/ FetchStudentOk \/ FetchStudentRaises \/ FinishCycle

Spec == Init /\ [][Next]_vars

SpecNovelty == InitNovelty /\ [][Next]_vars

(***************************************************************************)
(* Claims about the refresh cycle                                          *)
(***************************************************************************)

CycleEnds == pc = "running" /\ pc' = "idle"

\* C1: across two consecutive successful cycles, a lesson present at the same
\* (date, period) in both and differing in a compared field yields, in the second
\* cycle's changes_detected, has_changes = TRUE and a "modified" record for that
\* (date, period).
C1_ModifiedReportedAcrossCycles ==
    [][(CycleEnds /\ data.present /\ last_update_success /\ last_update_success')
        => \A s \in DOMAIN data.students \cap DOMAIN data'.students :
              LET before == data.students[s].schedule
                  after  == data'.students[s].schedule
                  cd     == data'.students[s].changes_detected
              IN  \A i \in DOMAIN before, j \in DOMAIN after :
                     (LessonKey(before[i]) = LessonKey(after[j])
                        /\ ChangedFields(before[i], after[j]) # <<>>)
                     => /\ cd.has_changes
                        /\ \E c \in DOMAIN cd.changes :
                              /\ cd.changes[c].type = "modified"
                              /\ cd.changes[c].date = after[j].date
                              /\ cd.changes[c].class_hour = after[j].class_hour_number]_vars

FiredCount(f, key) == IF key \in DOMAIN f THEN f[key] ELSE 0

C4_AllStudentsFailedCycleFails ==
    [][(CycleEnds /\ students # {} /\ api_failed = students /\ DOMAIN data.students # {})
        => (~last_update_success' /\ data' = data)]_vars

BundleKeys ==
    {"current_lesson", "next_lesson", "today_lessons", "tomorrow_lessons", "next_school_day",
     "this_week", "next_week", "today_changes", "changes_detected"}

\* C5: when one student's fetch raises an API error, the cycle still processes the
\* remaining students and publishes each with its complete view bundle.
C5_OtherStudentsPublished ==
    (pc = "idle" /\ api_failed # {})
        => /\ last_update_success
           /\ \A s \in students \ api_failed :
                 /\ s \in DOMAIN data.students
                 /\ BundleKeys \subseteq DOMAIN data.students[s]

MissingDate(batch) == \E i \in DOMAIN batch : batch[i].date = None

MissingPeriod(batch) == \E i \in DOMAIN batch : batch[i].classHour.number = None

HasLesson(schedule, id) == \E j \in DOMAIN schedule : schedule[j].id = <<"lesson", id>>

\* C6: a raw lesson with a missing date is dropped by normalization, the other
\* lessons of the batch are still normalized, and the cycle does not fail.
C6_MissingDateDropped ==
    LET batch == fetched.schedule_data
    IN  (fetched # NoFetch /\ MissingDate(batch) /\ ~MissingPeriod(batch))
        => /\ pc = "running"
           /\ LET schedule == cur.students[fetched.student_id].schedule
              IN  /\ \A j \in DOMAIN schedule : schedule[j].date # None
                  /\ \A i \in DOMAIN batch :
                        batch[i].date # None => HasLesson(schedule, batch[i].id)

\* C7: a raw lesson without a period number is kept in the student's schedule
\* with the start and end time of the raw record, and the cycle does not fail,
\* with or without an institution period table.
C7_PeriodlessLessonKept ==
    LET batch == fetched.schedule_data
    IN  (fetched # NoFetch /\ MissingPeriod(batch) /\ ~MissingDate(batch))
        => /\ pc = "running"
           /\ LET schedule == cur.students[fetched.student_id].schedule
              IN  \A i \in DOMAIN batch :
                     batch[i].classHour.number = None
                     => \E j \in DOMAIN schedule :
                           /\ schedule[j].id = <<"lesson", batch[i].id>>
                           /\ schedule[j].start_time = batch[i].classHour.from
                           /\ schedule[j].end_time = batch[i].classHour.until

\* C11: the published data changes only when a cycle completes successfully, from
\* the previous result to the complete local result of that cycle (every student
\* of the cycle visited: added, or skipped for its API error), and every entry a
\* reader gets holds all the derived views.
C11_PublishedOnlyAtCycleEnd ==
    [][/\ data' # data
          => /\ pc = "running" /\ todo = <<>> /\ pc' = "idle"
             /\ last_update_success'
             /\ data' = cur
             /\ DOMAIN cur.students \cup api_failed = students
       /\ \A s \in Students :
             get_student_data(s)' # <<>>
             => BundleKeys \subseteq DOMAIN get_student_data(s)'[1]]_vars

\* C11 witness: a cycle has added the first of two students to its local result
\* while readers still get both students of the previous cycle
C11_Witness ==
    /\ pc = "running" /\ Len(todo) = 1
    /\ DOMAIN cur.students = {1}
    /\ get_student_data(1) # <<>> /\ get_student_data(2) # <<>>
    /\ get_student_data(1)[1] # cur.students[1]

\* C12: the batch a successful cycle has normalized is normalized to the same
\* list by the next cycle when nothing changed upstream (same lessons, same
\* period table), the first cycle after startup included.
C12_NormalizationRepeatable ==
    [][(CycleEnds /\ last_update_success' /\ fetched # NoFetch)
        => _process_schedule_data(data, fetched.schedule_data)
             = _process_schedule_data(data', fetched.schedule_data)]_vars

\* C21: a lesson with a period number and no times gets the from/until of the
\* period table supplied in the same refresh cycle when that table holds its
\* period.
C21_TimesFromCycleTable ==
    (fetched # NoFetch /\ pc = "running")
    => LET batch == fetched.schedule_data
           table == fetched.class_hours
           schedule == cur.students[fetched.student_id].schedule
       IN  \A i \in DOMAIN batch, t \in DOMAIN table :
              (batch[i].classHour.number = table[t].number /\ batch[i].classHour.from = None)
              => \E j \in DOMAIN schedule :
                    /\ schedule[j].id = <<"lesson", batch[i].id>>
                    /\ schedule[j].start_time = table[t].from
                    /\ schedule[j].end_time = table[t].until

(***************************************************************************)
(* add_free_hours_to_schedule on its own: the inputs are normalized batches *)
(***************************************************************************)

MaxLessons == 3

FreeLastDay == 7

\* raw lessons: Monday period 1, a second entry in the same slot, Tuesday period
\* 2, a Saturday lesson, Tuesday period 3, a club without period number, and a
\* lesson dated after the range
FreePool ==
    <<RawLesson(1, 0, 1, 480, 525, "R101", "regularLesson"),
      RawLesson(2, 0, 1, 480, 525, "R102", "cancelledLesson"),
      RawLesson(3, 1, 2, 535, 580, "R101", "regularLesson"),
      RawLesson(4, 5, 1, 480, 525, "R101", "regularLesson"),
      RawLesson(5, 1, 3, 600, 645, "R101", "regularLesson"),
      RawLesson(6, 1, None, 900, 960, "Gym", "event"),
      RawLesson(7, 20, 1, 480, 525, "R101", "regularLesson")>>

Pick(pool, mask) ==
    LET idx == SelectSeq([i \in DOMAIN pool |-> i], LAMBDA i : i \in mask)
    IN  [k \in DOMAIN idx |-> pool[idx[k]]]

\* a table with a repeated number and a number outside 1..12
OddTable ==
    <<[number |-> 2, from |-> 535, until |-> 580], [number |-> 13, from |-> 1100, until |-> 1145],
      [number |-> 2, from |-> 540, until |-> 585]>>

FreeInputs ==
    {[lessons |-> _process_schedule_data(NoData, Pick(FreePool, mask)).val,
      class_hours |-> table,
      start_date |-> 0,
      end_date |-> FreeLastDay] :
        mask \in {m \in SUBSET DOMAIN FreePool : Cardinality(m) <= MaxLessons},
        table \in {<<>>, ClassHoursTable, OddTable}}

NoResult == [done |-> FALSE, ok |-> TRUE, val |-> <<>>]

InitFree ==
    /\ CoordInit /\ SvcInit /\ universe = "schedule"
    /\ arg \in FreeInputs
    /\ res = NoResult

\* one call of add_free_hours_to_schedule
AddFreeHours ==
    /\ ~res.done
    /\ LET r == add_free_hours_to_schedule(arg.lessons, arg.class_hours,
                                           arg.start_date, arg.end_date)
       IN  res' = [done |-> TRUE, ok |-> r.ok, val |-> r.val]
    /\ UNCHANGED <<students, previous_data, initial_refresh_done, seen_homework, data,
                   last_update_success, pc, cur, todo, now, api_failed, fetched, fired,
                   universe, arg>>
    /\ UNCHANGED svcVars

NextFree == AddFreeHours

SpecFree == InitFree /\ [][NextFree]_vars

SchoolDays == {d \in arg.start_date .. arg.end_date : ~IsWeekend(d)}

EntriesAt(d, p) == {i \in DOMAIN res.val : res.val[i].date = d /\ res.val[i].class_hour_number = p}

PeriodsOn(d) == {res.val[i].class_hour_number : i \in {j \in DOMAIN res.val : res.val[j].date = d}}

FreeAt(d, p) == {i \in EntriesAt(d, p) : res.val[i].is_free_hour}

Synthesized == res.done /\ res.ok /\ available_periods(arg.class_hours) # {}

\* C8 as claimed: after synthesis with a non-empty period table, on every
\* Monday-Friday date of the range the periods that have an entry are exactly the
\* available periods, no slot has two free hours, none a free hour beside a lesson.
C8_CoverageExact ==
    Synthesized
    => \A d \in SchoolDays :
          /\ PeriodsOn(d) = available_periods(arg.class_hours)
          /\ \A p \in PeriodsOn(d) :
                /\ Cardinality(FreeAt(d, p)) <= 1
                /\ FreeAt(d, p) # {} => FreeAt(d, p) = EntriesAt(d, p)

\* C8 amended: after synthesis with a non-empty period table, on every
\* Monday-Friday date of the range every available period has an entry, every
\* free hour lies at an available period, every entry outside the available
\* periods is a lesson of the input, no slot has two free hours and none has a
\* free hour beside a lesson.
C8_CoverageOfAvailable ==
    Synthesized
    => \A d \in SchoolDays :
          /\ available_periods(arg.class_hours) \subseteq PeriodsOn(d)
          /\ \A p \in PeriodsOn(d) :
                /\ Cardinality(FreeAt(d, p)) <= 1
                /\ FreeAt(d, p) # {} => FreeAt(d, p) = EntriesAt(d, p)
                /\ FreeAt(d, p) # {} => p \in available_periods(arg.class_hours)
                /\ p \notin available_periods(arg.class_hours)
                      => \A i \in EntriesAt(d, p) : res.val[i] \in Range(arg.lessons)

\* C8 witness: a school day that holds a lesson at an available period, a free
\* hour at another and a lesson outside the available periods
C8_Witness ==
    /\ Synthesized
    /\ \E d \in SchoolDays :
          /\ \E p \in PeriodsOn(d) : p \notin available_periods(arg.class_hours)
          /\ \E p \in available_periods(arg.class_hours) : FreeAt(d, p) # {}
          /\ \E p \in available_periods(arg.class_hours) :
                EntriesAt(d, p) # {} /\ FreeAt(d, p) = {}

\* C9: what add_free_hours_to_schedule returns is the input lessons plus free
\* hours only: every input lesson is in the output exactly once, and every entry
\* of the output that is no free hour is an input lesson.
C9_InputLessonsPreserved ==
    (res.done /\ res.ok)
    => /\ \A i \in DOMAIN arg.lessons :
             Cardinality({j \in DOMAIN res.val : res.val[j] = arg.lessons[i]}) = 1
       /\ \A j \in DOMAIN res.val :
             ~res.val[j].is_free_hour => res.val[j] \in Range(arg.lessons)

(***************************************************************************)
(* __init__.py: the manual refresh service of one coordinator              *)
(***************************************************************************)

MaxHandlers == 2

MaxTicks == 4

MaxRequests == 3

Remove(map, key) == [k \in DOMAIN map \ {key} |-> map[k]]

InitRefresh == CoordInit /\ SvcInit /\ FunInit /\ universe = "schedule"

\* time passes between two service calls
Tick ==
    /\ clock < MaxTicks * 150
    /\ clock' = clock + 150
    /\ UNCHANGED <<students, previous_data, initial_refresh_done, seen_homework, data,
                   last_update_success, pc, cur, todo, now, api_failed, fetched, fired,
                   universe, last_manual_refresh, handler, refresh_requests>>
    /\ UNCHANGED funVars

\* _svc_refresh, lines 433-440: the cooldown test reads coord._last_manual_refresh
InCooldown(t) == last_manual_refresh # None /\ t - last_manual_refresh < COOLDOWN_SECONDS

\* _svc_refresh inside the cooldown: continue, nothing happens
SvcRefreshSkipped ==
    /\ \E h \in 1..MaxHandlers : h \notin DOMAIN handler
    /\ InCooldown(clock)
    /\ UNCHANGED vars

\* _svc_refresh outside the cooldown, lines 433-442: the handler calls
\* async_request_refresh and waits for it
SvcRefreshCalls ==
    /\ \E h \in 1..MaxHandlers :
          /\ h \notin DOMAIN handler
          /\ handler' = Put(handler, h, [now |-> clock])
    /\ ~InCooldown(clock)
    /\ Len(refresh_requests) < MaxRequests
    /\ refresh_requests' = Append(refresh_requests, clock)
    /\ UNCHANGED <<students, previous_data, initial_refresh_done, seen_homework, data,
                   last_update_success, pc, cur, todo, now, api_failed, fetched, fired,
                   universe, clock, last_manual_refresh>>
    /\ UNCHANGED funVars

\* line 443: the awaited refresh returned; the handler stores the time it started at
SvcRefreshReturns ==
    /\ \E h \in DOMAIN handler :
          /\ last_manual_refresh' = handler[h].now
          /\ handler' = Remove(handler, h)
    /\ UNCHANGED <<students, previous_data, initial_refresh_done, seen_homework, data,
                   last_update_success, pc, cur, todo, now, api_failed, fetched, fired,
                   universe, clock, refresh_requests>>
    /\ UNCHANGED funVars

\* lines 444-445: the awaited refresh raised; nothing is stored
SvcRefreshRaises ==
    /\ \E h \in DOMAIN handler : handler' = Remove(handler, h)
    /\ UNCHANGED <<students, previous_data, initial_refresh_done, seen_homework, data,
                   last_update_success, pc, cur, todo, now, api_failed, fetched, fired,
                   universe, clock, last_manual_refresh, refresh_requests>>
    /\ UNCHANGED funVars

NextRefresh ==
    Tick \/ SvcRefreshSkipped \/ SvcRefreshCalls \/ SvcRefreshReturns \/ SvcRefreshRaises

SpecRefresh == InitRefresh /\ [][NextRefresh]_vars

\* C10: once a manual refresh call has called async_request_refresh, no call
\* arriving less than 300 seconds later calls it again; two overlapping handlers
\* call it at most once.
C10_RefreshCallsApartByCooldown ==
    \A i, j \in DOMAIN refresh_requests :
        i < j => refresh_requests[j] - refresh_requests[i] >= COOLDOWN_SECONDS

(***************************************************************************)
(* _detect_changes on its own: the snapshots are normalized batches        *)
(***************************************************************************)

MaxSnapshot == 2

WithTeachers(lesson, teachers) ==
    [lesson EXCEPT !.actualLesson = <<[@[1] EXCEPT !.teachers = teachers]>>]

\* raw lessons: Wednesday period 1, the same after a room change, with a second
\* teacher, with the two teachers swapped, Wednesday period 2, a cancelled entry
\* sharing the slot of the first, and Thursday period 1
DiffPool ==
    <<LessonA,
      LessonA2,
      WithTeachers(LessonA, <<Teacher, Teacher2>>),
      WithTeachers(LessonA, <<Teacher2, Teacher>>),
      RawLesson(5, 2, 2, 535, 580, "R101", "regularLesson"),
      RawLesson(6, 2, 1, 480, 525, "R303", "cancelledLesson"),
      RawLesson(7, 3, 1, 480, 525, "R101", "substitution")>>

Snapshots ==
    {_process_schedule_data(NoData, Pick(DiffPool, mask)).val :
        mask \in {m \in SUBSET DOMAIN DiffPool : Cardinality(m) <= MaxSnapshot}}

\* self.previous_data holds a snapshot of the student, of another student only,
\* or nothing
DiffInputs ==
    {[previous_data |-> Put(EmptyMap, 1, [schedule |-> previous]),
      student_id |-> 1,
      current_schedule |-> current] : previous \in Snapshots, current \in Snapshots}
    \cup
    {[previous_data |-> other,
      student_id |-> 1,
      current_schedule |-> current] :
        other \in {EmptyMap,
                           Put(EmptyMap, 2, [schedule |-> _process_schedule_data(NoData, <<LessonA>>).val])},
        current \in Snapshots}

NoChanges == [has_changes |-> FALSE, changes |-> <<>>]

InitDiff ==
    /\ CoordInit /\ SvcInit /\ universe = "schedule"
    /\ arg \in DiffInputs
    /\ res = [done |-> FALSE, changes_detected |-> NoChanges, reverse |-> NoChanges]

\* one call of _detect_changes, and the call with the two snapshots exchanged
DetectChanges ==
    /\ ~res.done
    /\ res' = [done |-> TRUE,
               changes_detected |-> _detect_changes(arg.previous_data, arg.student_id,
                                                    arg.current_schedule),
               reverse |-> IF arg.student_id \in DOMAIN arg.previous_data
                           THEN _detect_changes(
                                    Put(EmptyMap, arg.student_id,
                                        [schedule |-> arg.current_schedule]),
                                    arg.student_id,
                                    arg.previous_data[arg.student_id].schedule)
                           ELSE NoChanges]
    /\ UNCHANGED <<students, previous_data, initial_refresh_done, seen_homework, data,
                   last_update_success, pc, cur, todo, now, api_failed, fetched, fired,
                   universe, arg>>
    /\ UNCHANGED svcVars

NextDiff == DetectChanges

SpecDiff == InitDiff /\ [][NextDiff]_vars

HasPrevious == arg.student_id \in DOMAIN arg.previous_data

PreviousSchedule == arg.previous_data[arg.student_id].schedule

KeysOf(schedule) == {LessonKey(schedule[i]) : i \in DOMAIN schedule}

RecordsAt(cd, type, key) ==
    {i \in DOMAIN cd.changes :
        /\ cd.changes[i].type = type
        /\ <<cd.changes[i].date, cd.changes[i].class_hour>> = key}

KeysReported(cd, type) ==
    {<<cd.changes[i].date, cd.changes[i].class_hour>> :
        i \in {j \in DOMAIN cd.changes : cd.changes[j].type = type}}

\* C13: the keys diff(A, B) reports added are the keys diff(B, A) reports removed
\* and vice versa, and diff(A, A) is the empty change list.
C13_DiffMirror ==
    (res.done /\ HasPrevious)
    => /\ KeysReported(res.changes_detected, "added") = KeysReported(res.reverse, "removed")
       /\ KeysReported(res.changes_detected, "removed") = KeysReported(res.reverse, "added")
       /\ PreviousSchedule = arg.current_schedule
             => /\ ~res.changes_detected.has_changes
                /\ Len(res.changes_detected.changes) = 0

\* C13 witness: a diff that reports a key added and another key removed
C13_Witness ==
    /\ res.done /\ HasPrevious
    /\ KeysReported(res.changes_detected, "added") # {}
    /\ KeysReported(res.changes_detected, "removed") # {}

\* C14: without a previous snapshot of the student _detect_changes returns the
\* empty change list with has_changes = FALSE, whatever the current schedule.
C14_NoPreviousNoChanges ==
    (res.done /\ ~HasPrevious)
    => /\ ~res.changes_detected.has_changes
       /\ Len(res.changes_detected.changes) = 0

\* C14 witness: a first load of two lessons while only another student has a
\* previous snapshot
C14_Witness ==
    /\ res.done /\ ~HasPrevious
    /\ DOMAIN arg.previous_data # {}
    /\ Len(arg.current_schedule) = 2

\* C18: one "added" record for every key of the current snapshot that the
\* previous one lacks, one "removed" record for every key of the previous
\* snapshot that the current one lacks, none of either for a key of both.
C18_AddedRemovedPerKey ==
    (res.done /\ HasPrevious)
    => LET cd == res.changes_detected
           ck == KeysOf(arg.current_schedule)
           pk == KeysOf(PreviousSchedule)
       IN  /\ \A k \in ck \ pk : Cardinality(RecordsAt(cd, "added", k)) = 1
           /\ \A k \in pk \ ck : Cardinality(RecordsAt(cd, "removed", k)) = 1
           /\ KeysReported(cd, "added") = ck \ pk
           /\ KeysReported(cd, "removed") = pk \ ck

\* C18 witness: two lessons share a slot the previous snapshot lacks, and the
\* previous snapshot holds a slot that is gone
C18_Witness ==
    /\ res.done /\ HasPrevious
    /\ \E i, j \in DOMAIN arg.current_schedule :
          /\ i < j
          /\ LessonKey(arg.current_schedule[i]) = LessonKey(arg.current_schedule[j])
          /\ LessonKey(arg.current_schedule[i]) \notin KeysOf(PreviousSchedule)
    /\ KeysOf(PreviousSchedule) \ KeysOf(arg.current_schedule) # {}

ComparedFields ==
    {"subject", "room", "start_time", "end_time", "teachers", "is_substitution", "type",
     "comment"}

\* the compared fields in which two lessons differ, the teachers compared as the
\* ordered list of their abbreviations
Differing(p, c) ==
    {f \in ComparedFields :
        CASE f = "subject" -> p.subject # c.subject
          [] f = "room" -> p.room # c.room
          [] f = "start_time" -> p.start_time # c.start_time
          [] f = "end_time" -> p.end_time # c.end_time
          [] f = "teachers" -> [i \in DOMAIN p.teachers |-> p.teachers[i].abbreviation]
                                 # [i \in DOMAIN c.teachers |-> c.teachers[i].abbreviation]
          [] f = "is_substitution" -> p.is_substitution # c.is_substitution
          [] f = "type" -> p.type # c.type
          [] f = "comment" -> p.comment # c.comment}

\* C19: for a key of both snapshots a "modified" record is emitted iff one of the
\* eight compared fields differs between the key's lessons; its field_changes
\* list exactly the differing fields, once each, with the previous and the
\* current value.
C19_ModifiedIffFieldDiffers ==
    (res.done /\ HasPrevious)
    => LET cd == res.changes_detected
       IN  \A k \in KeysOf(arg.current_schedule) \cap KeysOf(PreviousSchedule) :
              LET p == Lookup(PreviousSchedule, k)
                  c == Lookup(arg.current_schedule, k)
                  mods == RecordsAt(cd, "modified", k)
              IN  /\ Differing(p, c) = {} => mods = {}
                  /\ Differing(p, c) # {}
                        => /\ Cardinality(mods) = 1
                           /\ \A m \in mods :
                                 LET fc == cd.changes[m].field_changes
                                 IN  /\ {fc[i].field : i \in DOMAIN fc} = Differing(p, c)
                                     /\ Len(fc) = Cardinality(Differing(p, c))
                                     /\ \A i \in DOMAIN fc :
                                           /\ fc[i].previous = FieldValue(p, fc[i].field)
                                           /\ fc[i].current = FieldValue(c, fc[i].field)

\* C19 witness: a room change R101 -> R202 alone, reported as one modified record
\* whose field_changes hold the room only
C19_Witness ==
    /\ res.done /\ HasPrevious
    /\ Len(res.changes_detected.changes) = 1
    /\ res.changes_detected.changes[1].type = "modified"
    /\ Len(res.changes_detected.changes[1].field_changes) = 1
    /\ res.changes_detected.changes[1].field_changes[1].field = "room"
    /\ res.changes_detected.changes[1].field_changes[1].previous = "R101"
    /\ res.changes_detected.changes[1].field_changes[1].current = "R202"

(***************************************************************************)
(* The derived views on their own: the schedule is what lines 114-120 of   *)
(* _async_update_data make of a raw batch and a period table               *)
(***************************************************************************)

MaxViewLessons == 2

\* raw lessons: Wednesday period 1, Wednesday period 2 starting when period 1
\* ends, Wednesday period 7 without times, a Saturday lesson, and next Monday
\* period 1
ViewPool ==
    <<RawLesson(1, 2, 1, 480, 525, "R101", "regularLesson"),
      RawLesson(2, 2, 2, 525, 570, "R101", "regularLesson"),
      RawLesson(3, 2, 7, None, None, "R101", "regularLesson"),
      RawLesson(4, 5, 1, 480, 525, "R101", "regularLesson"),
      RawLesson(5, 7, 1, 480, 525, "R101", "regularLesson")>>

\* a period table of the afternoon: period 7 at 12:45-13:30, period 8 at 13:30-14:15
LateTable ==
    <<[number |-> 7, from |-> 765, until |-> 810], [number |-> 8, from |-> 810, until |-> 855]>>

\* Tuesday 10:00, Wednesday 08:00, 08:45, 13:20 and 15:00, Friday 10:00, Saturday 10:00
ViewNows ==
    {[date |-> 1, time |-> 600], [date |-> 2, time |-> 480], [date |-> 2, time |-> 525],
     [date |-> 2, time |-> 800], [date |-> 2, time |-> 900], [date |-> 4, time |-> 600],
     [date |-> 5, time |-> 600]}

\* first: the cycle is the first after startup (self.data is None); otherwise
\* self.data holds the period table of the cycle before, which is the same table
ViewInputs ==
    {[schedule_data |-> Pick(ViewPool, mask),
      class_hours |-> table,
      first |-> first,
      now |-> n] :
        mask \in {m \in SUBSET DOMAIN ViewPool : Cardinality(m) <= MaxViewLessons},
        table \in {<<>>, LateTable},
        first \in BOOLEAN,
        n \in ViewNows}

NoViews ==
    [done |-> FALSE, ok |-> TRUE, schedule |-> <<>>, current_lesson |-> NoLesson,
     next_lesson |-> NoLesson, next_school_day |-> <<>>]

InitViews ==
    /\ CoordInit /\ SvcInit /\ universe = "schedule"
    /\ arg \in ViewInputs
    /\ res = NoViews

\* lines 114-131 of _async_update_data for one student: normalization, free
\* hours, then the views
ComputeViews ==
    /\ ~res.done
    /\ LET pub == IF arg.first THEN NoData
                  ELSE [present |-> TRUE, students |-> EmptyMap, class_hours |-> arg.class_hours]
           monday == arg.now.date - Weekday(arg.now.date)
           normalized == _process_schedule_data(pub, arg.schedule_data)
           schedule == IF ~normalized.ok THEN normalized
                       ELSE add_free_hours_to_schedule(normalized.val, arg.class_hours, monday,
                                                       monday + 7 * DEFAULT_LOOKAHEAD_WEEKS)
       IN  res' = IF schedule.ok /\ ~WeekWindowRaises(schedule.val)
                  THEN [done |-> TRUE, ok |-> TRUE, schedule |-> schedule.val,
                        current_lesson |-> _get_current_lesson(schedule.val, arg.now),
                        next_lesson |-> _get_next_lesson(schedule.val, arg.now),
                        next_school_day |-> _get_next_school_day_lessons(schedule.val, arg.now)]
                  ELSE [NoViews EXCEPT !.done = TRUE, !.ok = FALSE]
    /\ UNCHANGED <<students, previous_data, initial_refresh_done, seen_homework, data,
                   last_update_success, pc, cur, todo, now, api_failed, fetched, fired,
                   universe, arg>>
    /\ UNCHANGED svcVars

NextViews == ComputeViews

SpecViews == InitViews /\ [][NextViews]_vars

ViewsDone == res.done /\ res.ok

NowMinute == arg.now.date * 1440 + arg.now.time

StartOf(e) == e.date * 1440 + e.start_time

EndOf(e) == e.date * 1440 + e.end_time

\* C15: current_lesson is an entry e of the schedule with start(e) <= now < end(e)
\* and is None exactly when the schedule has no such entry.
C15_CurrentLessonHalfOpen ==
    ViewsDone
    => LET running == {i \in DOMAIN res.schedule :
                          /\ StartOf(res.schedule[i]) <= NowMinute
                          /\ NowMinute < EndOf(res.schedule[i])}
       IN  /\ res.current_lesson = NoLesson <=> running = {}
           /\ res.current_lesson # NoLesson
                 => \E i \in running : res.schedule[i] = res.current_lesson[1]

\* C16: next_lesson is an entry that starts after now and no entry starting
\* after now starts earlier; it is None exactly when no entry starts after now.
C16_NextLessonEarliest ==
    ViewsDone
    => LET later == {i \in DOMAIN res.schedule : StartOf(res.schedule[i]) > NowMinute}
       IN  /\ res.next_lesson = NoLesson <=> later = {}
           /\ res.next_lesson # NoLesson
                 => /\ \E i \in later : res.schedule[i] = res.next_lesson[1]
                    /\ \A i \in later : StartOf(res.next_lesson[1]) <= StartOf(res.schedule[i])

\* C17: next_school_day is the full entry list of the first date d with
\* today+1 <= d <= today+7 that is no Saturday or Sunday and has an entry, and
\* the empty list when there is no such date.
C17_NextSchoolDay ==
    ViewsDone
    => LET days == {d \in (arg.now.date + 1) .. (arg.now.date + 7) :
                       /\ d % 7 \notin {5, 6}
                       /\ \E i \in DOMAIN res.schedule : res.schedule[i].date = d}
       IN  /\ days = {} => res.next_school_day = <<>>
           /\ days # {}
                 => LET first == CHOOSE d \in days : \A e \in days : d <= e
                    IN  res.next_school_day
                          = SelectSeq(res.schedule, LAMBDA l : l.date = first)

\* C17 witness: today is Friday, the schedule holds a Saturday lesson and a lesson
\* on the following Monday, and next_school_day is Monday's list
C17_Witness ==
    /\ ViewsDone
    /\ Weekday(arg.now.date) = 4
    /\ \E i \in DOMAIN res.schedule : res.schedule[i].date = arg.now.date + 1
    /\ res.next_school_day # <<>>
    /\ \A i \in DOMAIN res.next_school_day : res.next_school_day[i].date = arg.now.date + 3

(***************************************************************************)
(* _homework_key on its own                                                *)
(***************************************************************************)

\* homework items of students 1 and 2: dates, subjects and texts with and
\* without an underscore, with surrounding blanks, and empty
KeyItems ==
    {[student_id |-> student_id,
      item |-> [date |-> date, subject |-> subject, homework |-> homework]] :
        student_id \in Students,
        date \in {<<"1">>, <<>>},
        subject \in {<<"M">>, <<"M", "_", "a">>, <<" ", "M">>},
        homework \in {<<"b">>, <<"a", "_", "b">>, <<>>}}

InitKey ==
    /\ CoordInit /\ SvcInit /\ universe = "novelty"
    /\ arg \in KeyItems \X KeyItems
    /\ res = [done |-> FALSE, keys |-> <<NoKey, NoKey>>]

\* _homework_key for two items
ComputeKeys ==
    /\ ~res.done
    /\ res' = [done |-> TRUE,
               keys |-> <<_homework_key(arg[1].student_id, arg[1].item),
                          _homework_key(arg[2].student_id, arg[2].item)>>]
    /\ UNCHANGED <<students, previous_data, initial_refresh_done, seen_homework, data,
                   last_update_success, pc, cur, todo, now, api_failed, fetched, fired,
                   universe, arg>>
    /\ UNCHANGED svcVars

NextKey == ComputeKeys

SpecKey == InitKey /\ [][NextKey]_vars

\* the identity of a homework item: student, date, subject and text, surrounding
\* blanks left aside
Identity(x) ==
    <<x.student_id, Strip(x.item.date), Strip(x.item.subject), Strip(x.item.homework)>>

\* C20: two homework items that have a key and differ in student, date, subject
\* or text have different keys, and items of the same identity have the same key.
C20_HomeworkKeyInjective ==
    (res.done /\ res.keys[1] # NoKey /\ res.keys[2] # NoKey)
    => (Identity(arg[1]) = Identity(arg[2]) <=> res.keys[1] = res.keys[2])

(***************************************************************************)
(* The fallback times of a period: _calculate_times_for_hour of the        *)
(* coordinator and _get_configurable_class_times of calendar.py.  A time   *)
(* string "HH:MM" of calendar.py is the pair <<hours, minutes>>.           *)
(***************************************************************************)

MaxHour == 13

\* calendar.py: DEFAULT_CLASS_TIMES.get(class_hour_number, ("08:00", "08:45"))
DEFAULT_CLASS_TIMES(class_hour_number) ==
    CASE class_hour_number = 1  -> <<<<8, 0>>, <<8, 45>>>>
      [] class_hour_number = 2  -> <<<<8, 50>>, <<9, 35>>>>
      [] class_hour_number = 3  -> <<<<9, 55>>, <<10, 40>>>>
      [] class_hour_number = 4  -> <<<<10, 45>>, <<11, 30>>>>
      [] class_hour_number = 5  -> <<<<11, 40>>, <<12, 25>>>>
      [] class_hour_number = 6  -> <<<<12, 30>>, <<13, 15>>>>
      [] class_hour_number = 7  -> <<<<13, 20>>, <<14, 5>>>>
      [] class_hour_number = 8  -> <<<<14, 10>>, <<14, 55>>>>
      [] class_hour_number = 9  -> <<<<15, 0>>, <<15, 45>>>>
      [] class_hour_number = 10 -> <<<<15, 50>>, <<16, 35>>>>
      [] class_hour_number = 11 -> <<<<16, 40>>, <<17, 25>>>>
      [] OTHER                  -> <<<<8, 0>>, <<8, 45>>>>

\* calendar.py _parse_time_to_minutes
_parse_time_to_minutes(time_str) == time_str[1] * 60 + time_str[2]

\* calendar.py _format_minutes_to_time
_format_minutes_to_time(minutes) == <<minutes \div 60, minutes % 60>>

\* _get_configurable_class_times: the break added after hour h
BreakAfter(config, h) ==
    CASE h = 2 -> config.long_break_1_minutes
      [] h = 4 -> config.long_break_2_minutes
      [] h = 6 -> config.lunch_break_minutes
      [] OTHER -> config.short_break_minutes

\* _get_configurable_class_times: start_minutes after the loop over range(1, hour)
RECURSIVE StartMinutes(_, _)
StartMinutes(config, hour) ==
    IF hour <= 1 THEN _parse_time_to_minutes(config.school_start_time)
    ELSE StartMinutes(config, hour - 1) + config.lesson_duration_minutes
         + BreakAfter(config, hour - 1)

\* _get_configurable_class_times; config is student_data["schedule_config"], <<>>
\* when the student has no data or its data has no such key
_get_configurable_class_times(config, class_hour_number) ==
    IF config = <<>> THEN DEFAULT_CLASS_TIMES(class_hour_number)
    ELSE IF class_hour_number = None \/ class_hour_number < 1 \/ class_hour_number > 10
         THEN DEFAULT_CLASS_TIMES(class_hour_number)
         ELSE LET start_minutes == StartMinutes(config[1], class_hour_number)
              IN  <<_format_minutes_to_time(start_minutes),
                    _format_minutes_to_time(start_minutes + config[1].lesson_duration_minutes)>>

\* school start 08:00, 45-minute lessons, 5-minute short breaks, 20 minutes after
\* period 2, 10 after period 4, 45 after period 6
ScheduleConfig ==
    [school_start_time |-> <<8, 0>>, lesson_duration_minutes |-> 45,
     short_break_minutes |-> 5, long_break_1_minutes |-> 20,
     long_break_2_minutes |-> 10, lunch_break_minutes |-> 45]

Published(table) == [present |-> TRUE, students |-> EmptyMap, class_hours |-> table]

TimesInputs ==
    {[pub |-> pub, config |-> config, hour_number |-> hour_number] :
        pub \in {NoData, Published(ClassHoursTable), Published(LateTable)},
        config \in {<<>>, <<ScheduleConfig>>},
        hour_number \in {None} \cup (0 .. MaxHour)}

InitTimes ==
    /\ CoordInit /\ SvcInit /\ universe = "schedule"
    /\ arg \in TimesInputs
    /\ res = [done |-> FALSE]

\* the times of a period and of the period after it, by the coordinator and by
\* the calendar
ResolveTimes ==
    /\ ~res.done
    /\ LET following == IF arg.hour_number = None THEN None ELSE arg.hour_number + 1
       IN  res' = [done |-> TRUE,
                   times |-> _calculate_times_for_hour(arg.pub, arg.hour_number),
                   following |-> _calculate_times_for_hour(arg.pub, following),
                   calendar |-> _get_configurable_class_times(arg.config, arg.hour_number),
                   calendar_following |-> _get_configurable_class_times(arg.config, following)]
    /\ UNCHANGED <<students, previous_data, initial_refresh_done, seen_homework, data,
                   last_update_success, pc, cur, todo, now, api_failed, fetched, fired,
                   universe, arg>>
    /\ UNCHANGED svcVars

NextTimes == ResolveTimes

SpecTimes == InitTimes /\ [][NextTimes]_vars

\* C22: without a period table, for the accepted periods k and k+1 (1 to 12) the
\* fallback start of period k+1 is not earlier than the fallback end of period k.
C22_FallbackOrderPreserving ==
    (res.done /\ ~arg.pub.present /\ arg.config = <<>> /\ arg.hour_number \in 1 .. 11)
    => /\ res.following[1] >= res.times[2]
       /\ _parse_time_to_minutes(res.calendar_following[1])
            >= _parse_time_to_minutes(res.calendar[2])

\* C23: without a period table, with base start 08:00, 45-minute lessons,
\* 5-minute short breaks and a 20-minute break after period 2, the computed
\* start of period 3 is 09:50.
C23_PeriodThreeStart ==
    (res.done /\ ~arg.pub.present /\ arg.config # <<>> /\ arg.hour_number = 3)
    => /\ res.times[1] = 9 * 60 + 50
       /\ res.calendar[1] = <<9, 50>>

(***************************************************************************)
(* current_lesson and next_lesson against the entries of the day           *)
(***************************************************************************)

\* C24: for the day of now the current lesson, the next lesson (when it is of
\* that day) and the lessons that have ended are pairwise disjoint and together are exactly the entries of
\* that day that are no free hours.
C24_DayPartition ==
    ViewsDone
    => LET day == {e \in Range(res.schedule) : e.date = arg.now.date /\ ~e.is_free_hour}
           current == Range(res.current_lesson)
           next == {e \in Range(res.next_lesson) : e.date = arg.now.date}
           past == {e \in day : EndOf(e) <= NowMinute}
       IN  /\ current \cap next = {}
           /\ current \cap past = {}
           /\ next \cap past = {}
           /\ current \cup next \cup past = day

\* C28: the entry returned as current_lesson or as next_lesson is never a
\* synthesized free hour.
C28_ViewsSkipFreeHours ==
    ViewsDone
    => /\ \A e \in Range(res.current_lesson) : ~e.is_free_hour
       /\ \A e \in Range(res.next_lesson) : ~e.is_free_hour

(***************************************************************************)
(* _process_schedule_data on its own, over lessons of every kind           *)
(***************************************************************************)

MaxBatch == 3

\* what a lesson of originalLessons carries
OriginalLesson == [subject |-> "Math", room |-> "R101", teachers |-> <<Teacher>>]

\* a cancellation: no actualLesson, the lesson that was to take place is in
\* originalLessons
CancelledLesson(id, date, number, from, until) ==
    [RawLesson(id, date, number, from, until, "", "cancelledLesson")
        EXCEPT !.actualLesson = <<>>, !.originalLessons = <<OriginalLesson>>]

\* an event: no actualLesson, no period number, an event payload
EventLesson(id, date, from, until) ==
    [id |-> id,
     date |-> date,
     classHour |-> [number |-> None, from |-> from, until |-> until],
     actualLesson |-> <<>>,
     originalLessons |-> <<>>,
     event |-> [text |-> "Trip", teachers |-> <<Teacher2>>],
     type |-> "event",
     comment |-> ""]

\* Wednesday: a regular lesson in period 1, a changed lesson in period 2, a
\* cancellation in period 3, an event at 15:00, a lesson at 10:00 without a
\* period number; Thursday: a lesson at 08:00 without a period number
LessonPool ==
    <<RawLesson(1, 2, 1, 480, 525, "R101", "regularLesson"),
      RawLesson(2, 2, 2, 535, 580, "R202", "changedLesson"),
      CancelledLesson(3, 2, 3, 593, 638),
      EventLesson(4, 2, 900, 960),
      RawLesson(5, 2, None, 600, 645, "R101", "regularLesson"),
      RawLesson(6, 3, None, 480, 525, "R101", "regularLesson")>>

LessonInputs ==
    {[pub |-> pub, schedule_data |-> Pick(LessonPool, mask)] :
        pub \in {NoData, Published(ClassHoursTable)},
        mask \in {m \in SUBSET DOMAIN LessonPool : Cardinality(m) <= MaxBatch}}

InitLessons ==
    /\ CoordInit /\ SvcInit /\ universe = "schedule"
    /\ arg \in LessonInputs
    /\ res = [done |-> FALSE, ok |-> TRUE, val |-> <<>>]

\* _process_schedule_data of one batch
ProcessScheduleData ==
    /\ ~res.done
    /\ LET processed == _process_schedule_data(arg.pub, arg.schedule_data)
       IN  res' = [done |-> TRUE, ok |-> processed.ok, val |-> processed.val]
    /\ UNCHANGED <<students, previous_data, initial_refresh_done, seen_homework, data,
                   last_update_success, pc, cur, todo, now, api_failed, fetched, fired,
                   universe, arg>>
    /\ UNCHANGED svcVars

NextLessons == ProcessScheduleData

SpecLessons == InitLessons /\ [][NextLessons]_vars

\* the normalized lessons made of the raw lesson
NormalizedOf(raw) == {l \in Range(res.val) : l.id = <<"lesson", raw.id>>}

\* C25: subject, room and teachers of a normalized lesson come from the object
\* of its kind; a cancelled lesson has the subject, room and teachers of its
\* original lesson, never the empty string.
C25_CancelledFromOriginal ==
    (res.done /\ res.ok)
    => \A i \in DOMAIN arg.schedule_data :
          LET raw == arg.schedule_data[i]
          IN  (raw.type = "cancelledLesson" /\ raw.originalLessons # <<>>)
              => /\ NormalizedOf(raw) # {}
                 /\ \A l \in NormalizedOf(raw) :
                       /\ l.subject = raw.originalLessons[1].subject
                       /\ l.room = raw.originalLessons[1].room
                       /\ l.teachers = TeacherInfo(raw.originalLessons[1].teachers)

\* C26: the post-pass keeps every period number the payload supplies, and after
\* it every lesson has a period number.
C26_EveryLessonNumbered ==
    (res.done /\ res.ok)
    => \A i \in DOMAIN arg.schedule_data :
          LET raw == arg.schedule_data[i]
          IN  /\ NormalizedOf(raw) # {}
              /\ \A l \in NormalizedOf(raw) :
                    /\ raw.classHour.number # None => l.class_hour_number = raw.classHour.number
                    /\ l.class_hour_number # None
                    /\ l.class_hour_number >= 1

(***************************************************************************)
(* The refresh cycle over an upstream whose homework never changes: every  *)
(* student has the items HomeworkA and HomeworkB from before the first     *)
(* refresh on                                                              *)
(***************************************************************************)

InitSteady == CoordInit /\ SvcInit /\ FunInit /\ universe = "steady"

SpecSteady == InitSteady /\ [][Next]_vars

\* C27: no homework-new event is ever fired for an item that existed upstream at
\* the first refresh, also when the student's fetch failed in the first refresh
\* and succeeded later.  Every item of this upstream existed at the first refresh.
C27_NoEventForInitialItems ==
    \A k \in DOMAIN fired : fired[k] = 0

(***************************************************************************)
(* A student whose fetch fails in a cycle                                  *)
(***************************************************************************)

\* C29: a cycle in which the fetch of a student fails with an API error and the
\* fetch of another succeeds is successful, publishes exactly the students whose
\* fetch succeeded, and readers get nothing for the failed student: its previous
\* entry is not carried over.
C29_FailedStudentNotCarriedOver ==
    [][(CycleEnds /\ todo = <<>> /\ api_failed # {} /\ students \ api_failed # {})
        => /\ last_update_success'
           /\ DOMAIN data'.students = students \ api_failed
           /\ \A s \in students \ api_failed : data'.students[s] = cur.students[s]
           /\ \A s \in api_failed : get_student_data(s)' = <<>>]_vars

\* C29 witness: a cycle is about to end in which the fetch of student 1 succeeded
\* and that of student 2 failed, while readers still get an entry for student 2
C29_Witness ==
    /\ pc = "running" /\ todo = <<>>
    /\ api_failed = {2}
    /\ DOMAIN cur.students = {1}
    /\ get_student_data(2) # <<>>

(***************************************************************************)
(* api.py: _make_api_call, one step per awaited operation.  arg is the     *)
(* state of the API object when the call starts, res the position of the   *)
(* call and what it has done so far.                                       *)
(***************************************************************************)

\* the statuses the server may answer a post to CALLS_URL with
Statuses == {200, 401, 403, 500}

ApiInputs ==
    {[token |-> token, expiring |-> expiring, bundle_cached |-> bundle_cached] :
        token \in BOOLEAN, expiring \in BOOLEAN, bundle_cached \in BOOLEAN}

\* posts: requests sent to CALLS_URL; auths: calls of authenticate() before the
\* first post; reauths: calls of authenticate() after it
InitApi ==
    /\ CoordInit /\ SvcInit /\ universe = "schedule"
    /\ arg \in ApiInputs
    /\ res = [pc |-> "start", posts |-> 0, auths |-> 0, reauths |-> 0, detects |-> 0,
              first_status |-> None, retry_status |-> None, outcome |-> "running"]

ApiUnchanged ==
    /\ UNCHANGED <<students, previous_data, initial_refresh_done, seen_homework, data,
                   last_update_success, pc, cur, todo, now, api_failed, fetched, fired,
                   universe, arg>>
    /\ UNCHANGED svcVars

Raise(r, error) == [r EXCEPT !.pc = "done", !.outcome = error]

\* _ensure_authenticated: authenticate() when there is no token or it expires
\* within five minutes; authenticate() raises SchulmanagerAPIError when it fails
EnsureAuthenticated ==
    /\ res.pc = "start"
    /\ IF ~arg.token \/ arg.expiring
       THEN \E authenticated \in BOOLEAN :
               res' = IF authenticated
                      THEN [res EXCEPT !.pc = "bundle", !.auths = @ + 1]
                      ELSE Raise([res EXCEPT !.auths = @ + 1], "SchulmanagerAPIError")
       ELSE res' = [res EXCEPT !.pc = "bundle"]
    /\ ApiUnchanged

\* _ensure_bundle_version: the cached version, or a detection that falls back to
\* a known version and never raises
EnsureBundleVersion ==
    /\ res.pc = "bundle"
    /\ res' = IF arg.bundle_cached THEN [res EXCEPT !.pc = "post"]
              ELSE [res EXCEPT !.pc = "post", !.detects = @ + 1]
    /\ ApiUnchanged

\* what becomes of the call after a response with status 200: the parsed body,
\* or SchulmanagerAPIError when the body is no JSON
Parsed(r) ==
    {[r EXCEPT !.pc = "done", !.outcome = "returned"], Raise(r, "SchulmanagerAPIError")}

\* the first post on every status that is not 200 asks for a retry
FirstPostRetriesAlways ==
    /\ res.pc = "post"
    /\ \E status \in Statuses :
          LET sent == [res EXCEPT !.posts = @ + 1, !.first_status = status]
          IN  IF status # 200 THEN res' = [sent EXCEPT !.pc = "reauth"]
              ELSE res' \in Parsed(sent)
    /\ ApiUnchanged

\* lines 370-437 without the 401 branch: the first post; a connection error of
\* the session is no SchulmanagerAPIError
FirstPost ==
    /\ res.pc = "post"
    /\ \/ res' = Raise(res, "ClientError")
       \/ \E status \in Statuses :
             LET sent == [res EXCEPT !.posts = @ + 1, !.first_status = status]
             IN  IF status = 401 THEN res' = [sent EXCEPT !.pc = "reauth"]
                 ELSE IF status # 200 THEN res' = Raise(sent, "SchulmanagerAPIError")
                 ELSE res' \in Parsed(sent)
    /\ ApiUnchanged

\* lines 379-382: authenticate() after a 401
Reauthenticate ==
    /\ res.pc = "reauth"
    /\ \E authenticated \in BOOLEAN :
          res' = IF authenticated
                 THEN [res EXCEPT !.pc = "retry", !.reauths = @ + 1]
                 ELSE Raise([res EXCEPT !.reauths = @ + 1], "SchulmanagerAPIError")
    /\ ApiUnchanged

\* lines 384-398: the retry
RetryPost ==
    /\ res.pc = "retry"
    /\ \/ res' = Raise(res, "ClientError")
       \/ \E status \in Statuses :
             LET sent == [res EXCEPT !.posts = @ + 1, !.retry_status = status]
             IN  IF status # 200 THEN res' = Raise(sent, "SchulmanagerAPIError")
                 ELSE res' \in Parsed(sent)
    /\ ApiUnchanged

NextApi == EnsureAuthenticated \/ EnsureBundleVersion \/ FirstPost \/ Reauthenticate \/ RetryPost

\* every step is the continuation of one coroutine: a step that can be taken is
\* taken
SpecApi == InitApi /\ [][NextApi]_vars /\ WF_vars(NextApi)

ApiCallBounded ==
    /\ res.posts <= 2
    /\ res.reauths <= 1
    /\ res.reauths = 1 => res.first_status = 401
    /\ res.posts = 2 => (res.first_status = 401 /\ res.reauths = 1)
    /\ (res.pc = "done" /\ res.first_status \notin {None, 200, 401})
          => (res.outcome = "SchulmanagerAPIError" /\ res.posts = 1 /\ res.reauths = 0)
    /\ (res.pc = "done" /\ res.retry_status \notin {None, 200})
          => (res.outcome = "SchulmanagerAPIError" /\ res.posts = 2)
    /\ (res.pc = "done" /\ res.outcome = "returned")
          => (res.posts = 1 /\ res.first_status = 200)
             \/ (res.posts = 2 /\ res.first_status = 401 /\ res.retry_status = 200)

\* C30: _make_api_call posts its request at most twice; only a 401 answer to the
\* first post is followed by one authenticate() and one retry; a retry answered
\* with a status other than 200, or a first post answered with a status other
\* than 200 and 401, raises SchulmanagerAPIError with no further post; the call
\* always ends.
C30_AtMostOneRetry ==
    [](ApiCallBounded) /\ <>(res.pc = "done")

\* C30 witness: the first post was answered with 401, authenticate() succeeded,
\* the retry was answered with 500 and the call raised SchulmanagerAPIError
C30_Witness ==
    /\ res.pc = "done"
    /\ res.first_status = 401 /\ res.reauths = 1
    /\ res.retry_status = 500 /\ res.posts = 2
    /\ res.outcome = "SchulmanagerAPIError"

====
